---- MODULE Spec2Model ----
(***************************************************************************)
(* Model of github-data-fetch (src/src/main.rs): run() drains the issue    *)
(* listing, partitions it into plain issues and pull-request numbers,      *)
(* writes issues.msgpack, fetches every pull with get_pull under           *)
(* future::join_all, and writes pulls.msgpack.                             *)
(*                                                                         *)
(* The environment (GitHub, the file system, the clock) is the source of   *)
(* nondeterminism: the listing the server holds, the size of every page,   *)
(* the answer to every request, the outcome of every file operation and    *)
(* the passing of time.  Core::new() and Timeout::new() are taken to       *)
(* succeed, as they do unless the OS refuses an event queue.               *)
(***************************************************************************)
EXTENDS Integers, Sequences, FiniteSets, TLC

\* ------------------------------------------------------------------ bounds
MaxIssues == 3      \* longest listing enumerated record by record
MaxNumber == 2      \* issue numbers 1..MaxNumber in those listings
MaxPage == 2        \* records the server puts on one page of those listings
MaxRej == 2         \* rate-limit rejections the server gives in one run
MaxReset == 1       \* largest reset delay (seconds) a rejection carries
MaxTime == 1        \* seconds the clock is followed for

\* ----------------------------------------------------- program constants
ThrottleRate == 20  \* ThrottleRate::new(20, ..)
ThrottleSecs == 1   \* Duration::from_secs(1)
PerPage == 100      \* .per_page(100)

VARIABLES
  pc,          \* position of run(): which step comes next, or how it ended
  err,         \* the error run() ended with ("none" while there is none)
  now,         \* the clock, in seconds
  listing,     \* the issues the server holds, in ascending order
  quiet,       \* the server answers detail requests in arrival order and
               \* never rate-limits (the large batches are followed so)
  listOut,     \* listing page requests outstanding
  served,      \* records the server has sent on listing pages so far
  listFailed,  \* a listing page request has failed
  collected,   \* records the issues stream has yielded so far
  issues,      \* handle_issues: the plain issues
  pr_nums,     \* handle_issues: numbers of the pull-request-linked issues
  st,          \* per element of join_all: "idle", "inflight" or "done"
  calls,       \* per element: network calls issued so far
  rej,         \* per element: rate-limit rejections received so far
  asked,       \* per element: the number its requests ask for
  startedAt,   \* per element: time of its first network call
  retry,       \* the latest retry call: when it was issued and the reset
               \* time of the rejection it follows
  fatal,       \* the detail endpoint has answered with an error that is
               \* no rate-limit rejection
  got,         \* per element: number of the Pull it resolved to (0: none)
  pulls,       \* the Vec<Pull> handle_pulls returned
  issuesFile,  \* issues.msgpack
  pullsFile    \* pulls.msgpack

vars == <<pc, err, now, listing, quiet, listOut, served, listFailed,
          collected, issues, pr_nums,
          st, asked, calls, rej, startedAt, retry, fatal, got, pulls,
          issuesFile, pullsFile>>

envVars == <<listing, quiet>>
issueVars == <<collected, issues, pr_nums>>
listVars == <<listOut, served, listFailed>>
pullVars == <<st, asked, calls, rej, startedAt, retry, fatal, got, pulls>>

\* ------------------------------------------------------------------- data
Record(n, p) == [number |-> n, pr |-> p]

Records == {Record(n, p) : n \in 1..MaxNumber, p \in BOOLEAN}

SeqsUpTo(S, n) == UNION {[1..k -> S] : k \in 0..n}

\* The listing is requested with .asc(): the server returns the issues in
\* ascending order of their numbers (a number may come twice).
Ascending(s) == \A i \in 1..(Len(s) - 1) : s[i].number <= s[i + 1].number

Listings == {s \in SeqsUpTo(Records, MaxIssues) : Ascending(s)}

\* The records a page may hold: a few, or the .per_page(100) asked for.
PageSizes == (1..MaxPage) \cup {PerPage}

\* A batch of n pull-request-linked issues numbered 1..n.
PullBatch(n) == [i \in 1..n |-> Record(i, TRUE)]

\* Batch sizes at and just above the throttle rate.
BatchSizes == {ThrottleRate, ThrottleRate + 1}

Min(a, b) == IF a < b THEN a ELSE b

\* A file: absent, left by an earlier run ("old"), created but not fully
\* written ("partial"), or holding the complete encoding of data.
Absent == [state |-> "absent", data |-> <<>>]
Old == [state |-> "old", data |-> <<>>]
Partial == [state |-> "partial", data |-> <<>>]
Complete(d) == [state |-> "complete", data |-> d]

\* serialize_to_file: File::create, then data.serialize into the file.
\* outcome "create_err": the file is not touched; "write_err": the file was
\* created (truncated) and the encoding broke off; "ok": complete contents.
FileOutcomes == {"create_err", "write_err", "ok"}

serialize_to_file(file, data, outcome) ==
  CASE outcome = "create_err" -> file
    [] outcome = "write_err" -> Partial
    [] OTHER -> Complete(data)

\* Iterator::partition: one pass, each item pushed to the left collection
\* when the predicate holds and to the right one otherwise.
RECURSIVE PartitionFrom(_, _, _)
PartitionFrom(s, left, right) ==
  IF s = <<>> THEN <<left, right>>
  ELSE IF ~Head(s).pr
       THEN PartitionFrom(Tail(s), Append(left, Head(s)), right)
       ELSE PartitionFrom(Tail(s), left, Append(right, Head(s)))

\* Mutant: the predicate's negation is lost, so the two sides change places.
PartitionSwapped(s) ==
  LET p == PartitionFrom(s, <<>>, <<>>)
  IN <<p[2], [i \in 1..Len(p[1]) |-> p[1][i].number]>>

\* handle_issues' result: (issues, pr_nums.map(|i| i.number)).
Partition(s) ==
  LET p == PartitionFrom(s, <<>>, <<>>)
  IN <<p[1], [i \in 1..Len(p[2]) |-> p[2][i].number]>>

\* ------------------------------------------------------------------- Init
NoPulls == <<>>

NoRetry == [at |-> 0, reset |-> 0]

Init ==
  /\ pc = "create_dir"
  /\ err = "none"
  /\ now = 0
  /\ \/ /\ listing \in Listings
        /\ quiet = FALSE
     \/ /\ listing \in {PullBatch(n) : n \in BatchSizes}
        /\ quiet = TRUE
  /\ listOut = 0
  /\ served = 0
  /\ listFailed = FALSE
  /\ collected = <<>>
  /\ issues = <<>>
  /\ pr_nums = <<>>
  /\ st = <<>>
  /\ asked = <<>>
  /\ calls = <<>>
  /\ rej = <<>>
  /\ startedAt = <<>>
  /\ retry = NoRetry
  /\ fatal = FALSE
  /\ got = <<>>
  /\ pulls = NoPulls
  /\ issuesFile \in {Absent, Old}
  /\ pullsFile = issuesFile

\* ---------------------------------------------------------------- actions
\* run() returns Err(e); main's unwrap then ends the process.
Fail(e) ==
  /\ pc' = "failed"
  /\ err' = e

\* fs::create_dir_all(&out_dir)?
CreateDir(ok) ==
  /\ pc = "create_dir"
  /\ IF ok THEN pc' = "handle_issues" /\ err' = err ELSE Fail("create_dir")
  /\ UNCHANGED <<now, envVars, listVars, issueVars, pullVars, issuesFile,
                 pullsFile>>

\* handle_issues up to the first poll of core.run(issues_stream.collect()):
\* the stream asks the server for the first page.
ListStart ==
  /\ pc = "handle_issues"
  /\ pc' = "listing"
  /\ listOut' = listOut + 1
  /\ UNCHANGED <<err, now, envVars, served, listFailed, issueVars, pullVars,
                 issuesFile, pullsFile>>

\* The page the stream requests next: the records after those collected,
\* as many as the server puts on the page.
NextPage(size) ==
  SubSeq(listing, Len(collected) + 1,
         Min(Len(listing), Len(collected) + size))

\* Mutant: the records of a page are put before those already collected.
ListPagePrepends(ok, size) ==
  /\ pc = "listing"
  /\ listOut > 0
  /\ IF ok
     THEN LET page == NextPage(size)
              all == page \o collected
          IN /\ collected' = all
             /\ served' = served + Len(page)
             /\ err' = err
             /\ listFailed' = listFailed
             /\ IF Len(all) = Len(listing)
                THEN /\ issues' = Partition(all)[1]
                     /\ pr_nums' = Partition(all)[2]
                     /\ pc' = "write_issues"
                     /\ listOut' = listOut - 1
                ELSE /\ UNCHANGED <<issues, pr_nums>>
                     /\ pc' = pc
                     /\ listOut' = listOut
     ELSE /\ Fail("listing")
          /\ listFailed' = TRUE
          /\ listOut' = listOut - 1
          /\ UNCHANGED <<served, issueVars>>
  /\ UNCHANGED <<now, envVars, pullVars, issuesFile, pullsFile>>

\* Mutant: a failed page request is issued again.
ListPageRetries(ok, size) ==
  /\ pc = "listing"
  /\ listOut > 0
  /\ IF ok
     THEN LET page == NextPage(size)
              all == collected \o page
          IN /\ collected' = all
             /\ served' = served + Len(page)
             /\ err' = err
             /\ listFailed' = listFailed
             /\ IF Len(all) = Len(listing)
                THEN /\ issues' = Partition(all)[1]
                     /\ pr_nums' = Partition(all)[2]
                     /\ pc' = "write_issues"
                     /\ listOut' = listOut - 1
                ELSE /\ UNCHANGED <<issues, pr_nums>>
                     /\ pc' = pc
                     /\ listOut' = listOut
     ELSE /\ listFailed' = TRUE
          /\ UNCHANGED <<pc, err, listOut, served, issueVars>>
  /\ UNCHANGED <<now, envVars, pullVars, issuesFile, pullsFile>>

\* core.run(issues_stream.collect())?: the answer to the outstanding page
\* request.  The stream yields the page's records and, unless the page was
\* the last, asks for the next page in the same poll.  It ends with the
\* page that reaches the end of the listing; collect() then resolves and
\* handle_issues partitions what was collected and returns.  An error ends
\* the stream, and `?` returns it.
ListPage(ok, size) ==
  /\ pc = "listing"
  /\ listOut > 0
  /\ IF ok
     THEN LET page == NextPage(size)
              all == collected \o page
          IN /\ collected' = all
             /\ served' = served + Len(page)
             /\ err' = err
             /\ listFailed' = listFailed
             /\ IF Len(all) = Len(listing)
                THEN /\ issues' = Partition(all)[1]
                     /\ pr_nums' = Partition(all)[2]
                     /\ pc' = "write_issues"
                     /\ listOut' = listOut - 1
                ELSE /\ UNCHANGED <<issues, pr_nums>>
                     /\ pc' = pc
                     /\ listOut' = listOut
     ELSE /\ Fail("listing")
          /\ listFailed' = TRUE
          /\ listOut' = listOut - 1
          /\ UNCHANGED <<served, issueVars>>
  /\ UNCHANGED <<now, envVars, pullVars, issuesFile, pullsFile>>

\* Mutant: the result of writing issues.msgpack is not looked at.
WriteIssuesIgnoresError(outcome) ==
  /\ pc = "write_issues"
  /\ issuesFile' = serialize_to_file(issuesFile, issues, outcome)
  /\ pc' = "handle_pulls"
  /\ err' = err
  /\ UNCHANGED <<now, envVars, listVars, issueVars, pullVars, pullsFile>>

\* serialize_to_file(&issues, &out_dir.join("issues.msgpack"))?
WriteIssues(outcome) ==
  /\ pc = "write_issues"
  /\ issuesFile' = serialize_to_file(issuesFile, issues, outcome)
  /\ IF outcome = "ok" THEN pc' = "handle_pulls" /\ err' = err
     ELSE Fail("write_issues")
  /\ UNCHANGED <<now, envVars, listVars, issueVars, pullVars, pullsFile>>

\* -------------------------------------------------------- the detail fetch
Elems == 1..Len(pr_nums)

\* The elements whose first network call join_all's first poll issues: it
\* polls every element in turn; the ThrottlePool of line 98 is built and
\* never consulted, so none is held back.
Admitted(n) == 1..n

\* Mutant: the first element's item is returned alone.
JoinAllFirstOnly(g) == [i \in 1..Min(1, Len(g)) |-> [number |-> g[i]]]

\* Mutant: the items come back last element first.
JoinAllReversed(g) == [i \in 1..Len(g) |-> [number |-> g[Len(g) + 1 - i]]]

\* future::join_all resolves, in the poll that finds every element done,
\* to the elements' items in the order of the elements.
JoinAllResult(g) == [i \in 1..Len(g) |-> [number |-> g[i]]]

\* Mutant: the lookup is made for the position instead of the number.
KeyOfPosition(i) == i

\* pull_nums.into_iter().map(|n| get_pull(repo, n)): the number the i-th
\* future asks for, on its first call and on every retry.
KeyOf(i) == pr_nums[i]

AllDone(s) == \A i \in 1..Len(s) : s[i] = "done"

\* Mutant: with no numbers the join is waited for all the same.
DispatchPullsWaitsOnEmpty ==
  /\ pc = "handle_pulls"
  /\ pc' = "pulls"
  /\ st' = [i \in 1..Len(pr_nums) |-> "inflight"]
  /\ asked' = [i \in 1..Len(pr_nums) |-> KeyOf(i)]
  /\ calls' = [i \in 1..Len(pr_nums) |-> 1]
  /\ rej' = [i \in 1..Len(pr_nums) |-> 0]
  /\ startedAt' = [i \in 1..Len(pr_nums) |-> now]
  /\ got' = [i \in 1..Len(pr_nums) |-> 0]
  /\ UNCHANGED <<err, now, envVars, listVars, issueVars, retry, fatal,
                 pulls, issuesFile, pullsFile>>

\* handle_pulls up to the first poll of core.run(join_all(pull_futs)):
\* get_pull is called for every number and every admitted element issues
\* its request within that one poll.  With no numbers join_all resolves at
\* once and handle_pulls returns the empty Vec.
DispatchPulls ==
  /\ pc = "handle_pulls"
  /\ LET n == Len(pr_nums)
         adm == Admitted(n)
     IN /\ st' = [i \in 1..n |-> IF i \in adm THEN "inflight" ELSE "idle"]
        /\ asked' = [i \in 1..n |-> KeyOf(i)]
        /\ calls' = [i \in 1..n |-> IF i \in adm THEN 1 ELSE 0]
        /\ rej' = [i \in 1..n |-> 0]
        /\ startedAt' = [i \in 1..n |-> now]
        /\ retry' = NoRetry
        /\ fatal' = fatal
        /\ got' = [i \in 1..n |-> 0]
        /\ IF n = 0
           THEN pulls' = JoinAllResult(got') /\ pc' = "write_pulls"
           ELSE pulls' = pulls /\ pc' = "pulls"
  /\ UNCHANGED <<err, now, envVars, listVars, issueVars, issuesFile,
                 pullsFile>>

\* Mutant: an element that was rejected and is not done holds the reactor,
\* and no other element's answer is taken meanwhile.
CanAnswerBlocking(i) ==
  /\ pc = "pulls"
  /\ i \in Elems
  /\ st[i] = "inflight"
  /\ quiet => \A j \in 1..(i - 1) : st[j] = "done"
  /\ \A j \in Elems \ {i} : ~(st[j] = "inflight" /\ rej[j] > 0)

\* The server may answer element i's outstanding request now.
CanAnswer(i) ==
  /\ pc = "pulls"
  /\ i \in Elems
  /\ st[i] = "inflight"
  /\ quiet => \A j \in 1..(i - 1) : st[j] = "done"

\* Mutant: the first element that is done resolves the whole join.
PullOkReturnsEarly(i) ==
  /\ CanAnswer(i)
  /\ st' = [st EXCEPT ![i] = "done"]
  /\ got' = [got EXCEPT ![i] = asked[i]]
  /\ pulls' = JoinAllResult(got')
  /\ pc' = "write_pulls"
  /\ UNCHANGED <<err, now, envVars, listVars, issueVars, calls, rej,
                 startedAt, asked, retry, fatal, issuesFile, pullsFile>>

\* repo.pulls().get(n).get() resolves to the Pull asked for: the element
\* is done; join_all resolves once every element is.
PullOk(i) ==
  /\ CanAnswer(i)
  /\ st' = [st EXCEPT ![i] = "done"]
  /\ got' = [got EXCEPT ![i] = asked[i]]
  /\ IF AllDone(st')
     THEN pulls' = JoinAllResult(got') /\ pc' = "write_pulls"
     ELSE pulls' = pulls /\ pc' = pc
  /\ UNCHANGED <<err, now, envVars, listVars, issueVars, calls, rej,
                 startedAt, asked, retry, fatal, issuesFile, pullsFile>>

\* What the or_else closure does with ErrorKind::RateLimit { reset: dt }:
\* Timeout::new(dt, ..) builds a timer; future::result wraps the already
\* built timer as a finished future, so the timer itself is never polled,
\* and and_then calls get_pull(repo, n) in the same poll: the request is
\* issued again at the time the rejection arrived.
RetryAt(t, dt) == t

RECURSIVE Sum(_)
Sum(s) == IF s = <<>> THEN 0 ELSE Head(s) + Sum(Tail(s))

TotalRej == Sum(rej)

\* Mutant: a rate-limit rejection is treated like every other error.
PullRateLimitedPanics(i, dt) ==
  /\ CanAnswer(i)
  /\ ~quiet
  /\ TotalRej < MaxRej
  /\ rej' = [rej EXCEPT ![i] = @ + 1]
  /\ pc' = "panicked"
  /\ err' = "detail"
  /\ got' = [j \in Elems |-> 0]
  /\ UNCHANGED <<now, envVars, listVars, issueVars, st, calls, startedAt,
                 asked, retry, fatal, pulls, issuesFile, pullsFile>>

\* Mutant: the rejection is taken and the lookup is not issued again.
PullRateLimitedNoReissue(i, dt) ==
  /\ CanAnswer(i)
  /\ ~quiet
  /\ TotalRej < MaxRej
  /\ rej' = [rej EXCEPT ![i] = @ + 1]
  /\ UNCHANGED <<pc, err, now, envVars, listVars, issueVars, st, calls,
                 startedAt, asked, retry, fatal, got, pulls, issuesFile,
                 pullsFile>>

\* Mutant: the retry is issued twice.
PullRateLimitedTwice(i, dt) ==
  /\ CanAnswer(i)
  /\ ~quiet
  /\ TotalRej < MaxRej
  /\ rej' = [rej EXCEPT ![i] = @ + 1]
  /\ calls' = [calls EXCEPT ![i] = @ + 2]
  /\ retry' = [at |-> RetryAt(now, dt), reset |-> now + dt]
  /\ UNCHANGED <<pc, err, now, envVars, listVars, issueVars, st, startedAt,
                 asked, fatal, got, pulls, issuesFile, pullsFile>>

\* Mutant: the element parks on the timer of a reactor that nothing runs.
PullRateLimitedParks(i, dt) ==
  /\ CanAnswer(i)
  /\ ~quiet
  /\ TotalRej < MaxRej
  /\ rej' = [rej EXCEPT ![i] = @ + 1]
  /\ st' = [st EXCEPT ![i] = "waiting"]
  /\ UNCHANGED <<pc, err, now, envVars, listVars, issueVars, calls,
                 startedAt, asked, retry, fatal, got, pulls, issuesFile,
                 pullsFile>>

\* ErrorKind::RateLimit { reset: dt } => ... get_pull(repo, n)
PullRateLimited(i, dt) ==
  /\ CanAnswer(i)
  /\ ~quiet
  /\ TotalRej < MaxRej
  /\ rej' = [rej EXCEPT ![i] = @ + 1]
  /\ calls' = [calls EXCEPT ![i] = @ + 1]
  /\ retry' = [at |-> RetryAt(now, dt), reset |-> now + dt]
  /\ UNCHANGED <<pc, err, now, envVars, listVars, issueVars, st, startedAt,
                 asked, fatal, got, pulls, issuesFile, pullsFile>>

\* Mutant: the error is swallowed and the element resolves without a Pull.
PullFatalSkipsKey(i) ==
  /\ CanAnswer(i)
  /\ fatal' = TRUE
  /\ st' = [st EXCEPT ![i] = "done"]
  /\ IF AllDone(st')
     THEN pulls' = JoinAllResult(got) /\ pc' = "write_pulls"
     ELSE pulls' = pulls /\ pc' = pc
  /\ UNCHANGED <<err, now, envVars, listVars, issueVars, calls, rej,
                 startedAt, asked, retry, got, issuesFile, pullsFile>>

\* _ => panic!("{}", e): the process unwinds out of core.run, dropping
\* join_all and the Pulls it held.
PullFatal(i) ==
  /\ CanAnswer(i)
  /\ pc' = "panicked"
  /\ err' = "detail"
  /\ fatal' = TRUE
  /\ got' = [j \in Elems |-> 0]
  /\ UNCHANGED <<now, envVars, listVars, issueVars, st, calls, rej,
                 startedAt, asked, retry, pulls, issuesFile, pullsFile>>

\* Mutant: a failed write of pulls.msgpack removes issues.msgpack again.
WritePullsRollsBack(outcome) ==
  /\ pc = "write_pulls"
  /\ pullsFile' = serialize_to_file(pullsFile, pulls, outcome)
  /\ IF outcome = "ok"
     THEN pc' = "done" /\ err' = err /\ issuesFile' = issuesFile
     ELSE Fail("write_pulls") /\ issuesFile' = Absent
  /\ UNCHANGED <<now, envVars, listVars, issueVars, pullVars>>

\* serialize_to_file(&pulls, &out_dir.join("pulls.msgpack"))?; Ok(())
WritePulls(outcome) ==
  /\ pc = "write_pulls"
  /\ pullsFile' = serialize_to_file(pullsFile, pulls, outcome)
  /\ IF outcome = "ok" THEN pc' = "done" /\ err' = err
     ELSE Fail("write_pulls")
  /\ UNCHANGED <<now, envVars, listVars, issueVars, pullVars, issuesFile>>

\* A second passes while the lookups are outstanding.
Tick ==
  /\ pc = "pulls"
  /\ now < MaxTime
  /\ now' = now + 1
  /\ UNCHANGED <<pc, err, envVars, listVars, issueVars, pullVars, issuesFile,
                 pullsFile>>

Next ==
  \/ \E ok \in BOOLEAN : CreateDir(ok)
  \/ ListStart
  \/ \E ok \in BOOLEAN, size \in PageSizes : ListPage(ok, size)
  \/ \E o \in FileOutcomes : WriteIssues(o)
  \/ DispatchPulls
  \/ \E i \in Elems : PullOk(i)
  \/ \E i \in Elems, dt \in 0..MaxReset : PullRateLimited(i, dt)
  \/ \E i \in Elems : PullFatal(i)
  \/ \E o \in FileOutcomes : WritePulls(o)
  \/ Tick

Spec == Init /\ [][Next]_vars

\* The runs followed to their end: those that find no earlier files (what
\* an earlier run left does not bear on whether this one ends).
FairInit == Init /\ issuesFile = Absent

\* core.run keeps polling until its future resolves, every request is
\* answered in the end and time passes: a step that can be taken is taken.
FairSpec == FairInit /\ [][Next]_vars /\ WF_vars(Next)

\* ----------------------------------------------------------------- claims
\* Elements whose first network call fell into the window starting at t.
StartedIn(t) ==
  {i \in 1..Len(st) : st[i] # "idle" /\ startedAt[i] >= t
                      /\ startedAt[i] < t + ThrottleSecs}

\* C1: in no 1-second window are more than 20 new detail lookups started.
C1_ThrottleCeiling ==
  \A t \in 0..MaxTime : Cardinality(StartedIn(t)) <= ThrottleRate

\* C2: a key rejected N times and then answered with success has had
\* exactly N+1 network calls and has resolved to the Pull of that key; while
\* it is unanswered, the call after its N rejections is outstanding.
C2_RetryConvergence ==
  \A i \in 1..Len(st) :
    /\ st[i] = "inflight" => calls[i] = rej[i] + 1
    /\ st[i] = "done" =>
         /\ calls[i] = rej[i] + 1
         /\ pc # "panicked" => got[i] = pr_nums[i]

C2_Witness ==
  \E i \in 1..Len(st) : st[i] = "done" /\ rej[i] = MaxRej /\ calls[i] > 1

\* C3: a retry call is not issued before the reset time of the rejection it
\* follows.
C3_WaitsForReset ==
  TotalRej > 0 => retry.at >= retry.reset

\* C4: a run whose detail endpoint gave rate-limit rejections and no other
\* error has not panicked, and has failed only by the write of pulls.msgpack.
C4_RateLimitNotFatal ==
  (TotalRej > 0 /\ ~fatal) =>
    /\ pc # "panicked"
    /\ pc = "failed" => err = "write_pulls"

C4_Witness == TotalRej > 0 /\ ~fatal /\ pc = "done"

\* pulls.msgpack is as the run found it.
PullsFileUntouched == pullsFile \in {Absent, Old}

\* C5: once a detail lookup has failed with another error than a rate-limit
\* rejection, handle_pulls has ended in failure, no Pull is kept and
\* pulls.msgpack is not written.
C5_AtomicBatchFailure ==
  fatal =>
    /\ pc = "panicked"
    /\ err = "detail"
    /\ pulls = NoPulls
    /\ \A i \in 1..Len(got) : got[i] = 0
    /\ PullsFileUntouched

C5_Witness ==
  /\ fatal
  /\ \E i \in 1..Len(st) : st[i] = "done"
  /\ \E i \in 1..Len(st) : st[i] = "inflight" /\ rej[i] > 0

\* handle_pulls has returned Ok.
PullsReturned ==
  \/ pc \in {"write_pulls", "done"}
  \/ pc = "failed" /\ err = "write_pulls"

\* How often n is among the numbers of the Pulls in s.
Entries(s, n) == Cardinality({i \in 1..Len(s) : s[i].number = n})

\* How often n was requested.
Requests(n) == Cardinality({i \in 1..Len(pr_nums) : pr_nums[i] = n})

\* Every number that was requested or is on a returned Pull.
KeysSeen ==
  {pr_nums[i] : i \in 1..Len(pr_nums)} \cup
  {pulls[i].number : i \in 1..Len(pulls)}

IssuesReturned ==
  \/ pc \in {"write_issues", "handle_pulls", "pulls", "write_pulls", "done",
             "panicked"}
  \/ pc = "failed" /\ err \in {"write_issues", "write_pulls"}

IsPlain(r) == ~r.pr

IsLinked(r) == r.pr

\* C7: handle_issues returns the records without pull_request in their input
\* order and the numbers of the records with it in theirs; every record of
\* the listing is on exactly one side.
C7_PartitionCorrect ==
  IssuesReturned =>
    /\ collected = listing
    /\ issues = SelectSeq(collected, IsPlain)
    /\ Len(pr_nums) = Len(SelectSeq(collected, IsLinked))
    /\ \A i \in 1..Len(pr_nums) :
         pr_nums[i] = SelectSeq(collected, IsLinked)[i].number
    /\ Len(issues) + Len(pr_nums) = Len(collected)

C7_Witness ==
  /\ pc = "write_issues"
  /\ Len(collected) = MaxIssues
  /\ collected[1].pr
  /\ ~collected[2].pr
  /\ collected[3].pr
  /\ collected[1].number # collected[3].number

\* C8: no number is twice in the key list handle_issues returns.
C8_NoDuplicateKeys ==
  IssuesReturned =>
    \A i, j \in 1..Len(pr_nums) : i # j => pr_nums[i] # pr_nums[j]

IssuesFileUntouched == issuesFile \in {Absent, Old}

\* Some detail lookup has been issued.
LookupIssued == \E i \in 1..Len(calls) : calls[i] > 0

\* C9: run's steps leave their effects in order: issues.msgpack is touched
\* only after the listing was drained and partitioned, a detail lookup is
\* issued only after issues.msgpack was written completely, pulls.msgpack
\* is touched only after every lookup has completed, a failed step leaves
\* the later steps undone, and run succeeds only with both files written.
C9_RunOrdering ==
  /\ ~IssuesFileUntouched =>
       /\ IssuesReturned
       /\ collected = listing
       /\ issues = Partition(collected)[1]
       /\ pr_nums = Partition(collected)[2]
  /\ LookupIssued => issuesFile = Complete(issues)
  /\ pc \in {"handle_pulls", "pulls"} =>
       issuesFile = Complete(issues) /\ PullsFileUntouched
  /\ ~PullsFileUntouched =>
       /\ issuesFile = Complete(issues)
       /\ AllDone(st)
       /\ pulls = JoinAllResult(got)
  /\ (pc = "failed" /\ err \in {"create_dir", "listing"}) =>
       IssuesFileUntouched /\ ~LookupIssued /\ PullsFileUntouched
  /\ (pc = "failed" /\ err = "write_issues") =>
       ~LookupIssued /\ PullsFileUntouched
  /\ pc = "done" =>
       issuesFile = Complete(issues) /\ pullsFile = Complete(pulls)

C9_Witness ==
  /\ pc = "done"
  /\ issues # <<>>
  /\ Len(pr_nums) > 1
  /\ TotalRej > 0

\* The run failed in the detail fetch or in writing pulls.msgpack.
DetailStageFailed ==
  \/ pc = "panicked"
  \/ pc = "failed" /\ err = "write_pulls"

\* C10: from the detail fetch on, and after a failure of the detail fetch
\* or of the write of pulls.msgpack, issues.msgpack holds the complete plain
\* collection as written; such a failed run leaves no complete
\* pulls.msgpack, and a successful run leaves both files complete.
C10_NoRollback ==
  /\ (pc \in {"handle_pulls", "pulls", "write_pulls"} \/ DetailStageFailed)
       => issuesFile = Complete(issues)
  /\ DetailStageFailed => pullsFile.state # "complete"
  /\ pc = "done" =>
       issuesFile = Complete(issues) /\ pullsFile = Complete(pulls)

C10_Witness ==
  /\ pc = "failed"
  /\ err = "write_pulls"
  /\ pullsFile = Partial
  /\ issues # <<>>
  /\ pulls # <<>>

\* C11: at most one listing page request is outstanding, and only while the
\* listing is drained; the records collected are the pages the server sent,
\* in its order, as many as it sent, and at the end the whole listing.
C11_Pagination ==
  /\ listOut \in {0, 1}
  /\ listOut = 1 => pc = "listing"
  /\ served = Len(collected)
  /\ collected = SubSeq(listing, 1, served)
  /\ IssuesReturned => collected = listing /\ served = Len(listing)

C11_Witness ==
  /\ pc = "listing"
  /\ listOut = 1
  /\ served = MaxPage
  /\ Len(listing) > served
  /\ collected[1] # collected[served]

\* C12: once a listing page request has failed, run has failed with that
\* error, no page request is outstanding, neither file is touched and no
\* detail lookup exists.
C12_ListingFailureFatal ==
  listFailed =>
    /\ pc = "failed"
    /\ err = "listing"
    /\ listOut = 0
    /\ IssuesFileUntouched
    /\ PullsFileUntouched
    /\ ~LookupIssued
    /\ st = <<>>
    /\ issues = <<>>
    /\ pr_nums = <<>>

C12_Witness == listFailed /\ served > 0 /\ served < Len(listing)

\* C13: handle_pulls has returned Ok only with every element of join_all
\* done, its last call answered with a Pull; none is idle or in flight.
C13_CompletionBarrier ==
  PullsReturned =>
    /\ Len(st) = Len(pr_nums)
    /\ \A i \in 1..Len(st) :
         st[i] = "done" /\ got[i] # 0 /\ calls[i] = rej[i] + 1

C13_Witness ==
  /\ pc = "write_pulls"
  /\ Len(st) = MaxIssues
  /\ TotalRej = MaxRej

\* C14: the lookups are, one for one and in order, for the numbers of the
\* pull-request-linked records of the listing: one element per key of the
\* key list, asking for that key, and none for any other record.
C14_KeyProvenance ==
  /\ Len(asked) = Len(st)
  /\ LookupIssued =>
       /\ Len(asked) = Len(pr_nums)
       /\ Len(asked) = Len(SelectSeq(listing, IsLinked))
       /\ \A i \in 1..Len(asked) :
            /\ asked[i] = SelectSeq(listing, IsLinked)[i].number
            /\ asked[i] = pr_nums[i]
            /\ calls[i] >= 1

C14_Witness ==
  /\ LookupIssued
  /\ Len(asked) > 1
  /\ \E k \in 1..Len(listing) :
       /\ ~listing[k].pr
       /\ \A i \in 1..Len(asked) : asked[i] # listing[k].number

\* The environment has failed the run: a directory or file operation, a
\* listing page or a detail lookup ended in an error that is no rate-limit
\* rejection.
EnvFailure ==
  \/ listFailed
  \/ fatal
  \/ err \in {"create_dir", "write_issues", "write_pulls"}

RunSucceeded ==
  /\ pc = "done"
  /\ issuesFile = Complete(issues)
  /\ pullsFile = Complete(pulls)

\* C15: under fair scheduling a run in which nothing but rate-limit
\* rejections (finitely many) goes wrong ends successfully with both files
\* written.
C15_RunTerminates == <>(RunSucceeded \/ EnvFailure)

C15_Witness ==
  /\ RunSucceeded
  /\ ~EnvFailure
  /\ TotalRej = MaxRej
  /\ now = MaxTime
  /\ Len(pr_nums) = MaxIssues

InFlight == {i \in 1..Len(st) : st[i] = "inflight"}

\* C16: from the step in which a detail lookup fails with another error than
\* a rate-limit rejection, no network call is issued for any key.
C16_FatalShortCircuit == [][(fatal \/ fatal') => calls' = calls]_vars

C16_Witness ==
  /\ fatal
  /\ Cardinality(InFlight) > 1
  /\ TotalRej < MaxRej

\* Element i was rejected and its lookup is not done.
Backoff(i) == st[i] = "inflight" /\ rej[i] > 0

C18_EmptyInput ==
  listing = <<>> =>
    /\ IssuesReturned => issues = <<>> /\ pr_nums = <<>>
    /\ ~LookupIssued
    /\ st = <<>>
    /\ pc \notin {"pulls", "panicked"}
    /\ issuesFile.data = <<>>
    /\ pullsFile.data = <<>>
    /\ pc = "failed" => EnvFailure
    /\ pc = "done" =>
         issuesFile = Complete(<<>>) /\ pullsFile = Complete(<<>>)

C18_Witness == listing = <<>> /\ pc = "done" /\ pulls = <<>>

\* C19: the Vec handle_pulls returns is in the order of the key list: its
\* i-th Pull is the one of the i-th key.
C19_OrderPreserved ==
  PullsReturned =>
    /\ Len(pulls) = Len(pr_nums)
    /\ \A i \in 1..Len(pulls) : pulls[i].number = pr_nums[i]

C19_Witness ==
  /\ pc = "done"
  /\ Len(pr_nums) > 1
  /\ pr_nums[1] # pr_nums[2]
  /\ rej[1] > 0
  /\ rej[2] = 0

\* Calls of element i that have not been answered.
Outstanding(i) == calls[i] - rej[i] - (IF st[i] = "done" THEN 1 ELSE 0)

\* The calls element i had made before the step.
CallsBefore(i) == IF i \in 1..Len(calls) THEN calls[i] ELSE 0

\* C20: a key has at most one call outstanding and none once it is done;
\* a step issues at most one call for a key, and a call that is not the
\* key's first is issued in the step that takes a rate-limit rejection of
\* its outstanding call.
C20_OneCallAtATime ==
  /\ [](\A i \in 1..Len(st) :
          /\ Outstanding(i) \in {0, 1}
          /\ st[i] = "done" => Outstanding(i) = 0)
  /\ [][\A i \in 1..Len(calls') :
          calls'[i] # CallsBefore(i) =>
            /\ calls'[i] = CallsBefore(i) + 1
            /\ \/ CallsBefore(i) = 0
               \/ st[i] = "inflight" /\ rej'[i] = rej[i] + 1]_vars

C20_Witness ==
  /\ pc = "pulls"
  /\ \E i \in 1..Len(st) : st[i] = "done" /\ calls[i] = MaxRej + 1
  /\ \E i \in 1..Len(st) : st[i] = "inflight" /\ calls[i] = 1

====
